---- MODULE Spec2Model ----
(***************************************************************************)
(* Sandbox session orchestration of Claudable: the VibeKit service cache   *)
(* (vibekit_service.py), the sandbox project initializer                   *)
(* (sandbox_initializer.py), the sandbox CRUD entry points                 *)
(* (sandbox_crud.py) and the Claude sandbox adapter                        *)
(* (claude_code_sandbox.py).                                               *)
(*                                                                         *)
(* Every coroutine in flight is a task with a position (pc).  One step of  *)
(* a task runs the code from one suspension point (an await of a bridge    *)
(* request, a yield of the generator, an awaited broadcast) to the next;   *)
(* a bridge request is answered at the instant of its step, with an        *)
(* outcome chosen by the environment.  Synchronous code that follows a     *)
(* request up to the next suspension point belongs to the same step.       *)
(***************************************************************************)
EXTENDS Integers, Sequences, FiniteSets, TLC

\* ------------------------------------------------------------------ bounds
MaxSandboxes == 3   \* sandbox ids the bridge hands out in one run
MaxSession == 1     \* provider session ids 1..MaxSession (0 is None)
MaxTasks == 2       \* coroutines in flight at the same time
MaxCalls == 2       \* calls of execute_with_streaming by one caller
MaxChunks == 3      \* chunks the bridge pushes to one caller's streams
MaxRaceCalls == 2   \* calls of execute_with_streaming by concurrent callers
MaxRaceChunks == 1  \* chunks the bridge pushes to concurrent callers' streams
MaxFullCalls == 1   \* calls of execute_with_streaming next to the CRUD requests
MaxFullChunks == 1  \* chunks the bridge pushes next to the CRUD requests
MaxCancelCalls == 1   \* calls of execute_with_streaming by a caller that may close them
MaxCancelChunks == 2  \* chunks the bridge pushes to such a caller's streams
MaxResumeSession == 2 \* provider session ids of a caller that resumes sessions
MaxResumeCalls == 2   \* calls of execute_with_streaming by such a caller
MaxResumeChunks == 2  \* chunks the bridge pushes to such a caller's streams
MaxPairCalls == 1     \* calls of execute_with_streaming by the caller of two projects
MaxPairChunks == 1    \* chunks the bridge pushes to that caller's streams
MaxPairSandboxes == 2 \* sandbox ids the bridge hands out for two projects
MaxDiffCalls == 2     \* calls of generate_diff_with_logging

Projects == {"p1", "p2"}
TaskIds == 1..MaxTasks
NoProject == "-"

\* Outcome of one bridge request: answered 200, or failed (non-200 answer,
\* timeout or transport error; the service raises).
Outcomes == {"ok", "fail"}
\* Outcome of execute-command: 200 with success true, 200 with success false
\* (non-zero exit status), or failed.
CmdOutcomes == {"ok", "nonzero", "fail"}

VARIABLES
    services,         \* _vibekit_services: project id -> VibeKitService
    session_mapping,  \* ClaudeCodeSandboxCLI.session_mapping (0: no entry)
    db,               \* the projects table, one optional record per id
    meta,             \* sandbox_metadata.json per project (0: absent, else its sandbox_id)
    bridge,           \* the VibeKit bridge's state per project
    nextSandbox,      \* last sandbox id the bridge handed out
    tasks,            \* coroutines in flight
    env,              \* what the callers and the bridge may still do: calls of
                      \* execute_with_streaming, chunks pushed, coroutines in
                      \* flight, the projects the callers ask for, and the
                      \* provider session ids in use; sandboxes, the sandbox
                      \* ids the bridge hands out
    last              \* the step taken last: operation, project, outcome

vars == <<services, session_mapping, db, meta, bridge, nextSandbox, tasks, env, last>>

\* ------------------------------------------------------- VibeKitService
\* No entry in _vibekit_services.
NoService == [sandbox_id |-> 0, session_id |-> 0, client |-> "absent"]

\* VibeKitService.__init__: no sandbox id, no session id, a fresh client.
VibeKitService == [sandbox_id |-> 0, session_id |-> 0, client |-> "open"]

\* A cache that creates the instances of all projects on first use.
get_vibekit_service_for_all(S, p) ==
    IF S[p].client = "absent"
    THEN [q \in DOMAIN S |-> IF S[q].client = "absent" THEN VibeKitService ELSE S[q]]
    ELSE S

\* get_vibekit_service: the cached instance, created on first use only.
get_vibekit_service(S, p) ==
    IF S[p].client = "absent" THEN [S EXCEPT ![p] = VibeKitService] ELSE S

\* A request through a closed httpx client raises before anything is sent.
Sent(svc) == svc.client = "open"

\* The request was sent and answered 200.
Answered(svc, out) == Sent(svc) /\ out = "ok"

\* VibeKitService.initialize_sandbox: on 200 the instance records the id.
initialize_sandbox(S, p, out, id) ==
    IF Answered(S[p], out) THEN [S EXCEPT ![p].sandbox_id = id] ELSE S

\* A set_session that forgets the sandbox id when the request fails.
set_session_resetting(S, p, out, sid) ==
    IF Answered(S[p], out) THEN [S EXCEPT ![p].session_id = sid]
    ELSE [S EXCEPT ![p].sandbox_id = 0]

\* VibeKitService.set_session: on 200 the instance records the session id.
set_session(S, p, out, sid) ==
    IF Answered(S[p], out) THEN [S EXCEPT ![p].session_id = sid] ELSE S

\* VibeKitService.get_session: on 200 the instance records the bridge's id.
get_session(S, p, out, sid) ==
    IF Answered(S[p], out) THEN [S EXCEPT ![p].session_id = sid] ELSE S

\* A cleanup that does nothing.
cleanup_skipped(S, p) == S

\* A cleanup that forgets the sandbox id once the client is already closed.
cleanup_forgetting(S, p) ==
    [S EXCEPT ![p].client = "closed",
              ![p].sandbox_id = IF S[p].client = "closed" THEN 0 ELSE @]

\* VibeKitService.cleanup: whatever the DELETE does, the client is closed;
\* sandbox_id and session_id keep their values and the instance stays cached.
cleanup(S, p) == [S EXCEPT ![p].client = "closed"]

\* What became of a request: not sent (closed client), or the bridge's answer.
Remote(svc, out) == IF Sent(svc) THEN out ELSE "unsent"

\* An execute_command that raises for a non-zero exit status as well.
execute_command_strict(svc, out) ==
    IF Remote(svc, out) = "ok" THEN "success" ELSE "raised"

\* VibeKitService.execute_command: the body of a 200 answer is returned
\* whatever its success flag; anything else is raised.
execute_command(svc, out) ==
    CASE Remote(svc, out) = "ok" -> "success"
      [] Remote(svc, out) = "nonzero" -> "failure"
      [] OTHER -> "raised"

\* Outcome of the health probe: 200 with status ok, 200 with another status,
\* or failed (non-200 answer or network failure).
ProbeOutcomes == {"ok", "degraded", "fail"}

\* A health_check that reports ok whatever the probe did.
health_check_optimistic(out) == "ok"

\* VibeKitService.health_check: the status of the body of a 200 answer,
\* status error otherwise; no error leaves it.
health_check(out) == IF out \in {"ok", "degraded"} THEN out ELSE "error"

\* ------------------------------------------------------------ the bridge
NoSandbox == [inits |-> 0, sandbox |-> 0, session |-> 0]

\* POST /api/sandbox/initialize answered 200: a new sandbox for the project.
bridge_initialize(B, p, id) ==
    [B EXCEPT ![p].inits = @ + 1, ![p].sandbox = id]

\* DELETE /api/sandbox/{project} answered 200: the project's sandboxes are gone.
bridge_teardown(B, p) == [B EXCEPT ![p] = NoSandbox]

\* POST /api/sandbox/session/{project} answered 200.
bridge_set_session(B, p, sid) == [B EXCEPT ![p].session = sid]

\* The bridge after VibeKitService.cleanup's DELETE with outcome out.
AfterCleanup(B, S, p, out) ==
    IF Answered(S[p], out) THEN bridge_teardown(B, p) ELSE B

\* The bridge after VibeKitService.initialize_sandbox with outcome out.
AfterInitialize(B, S, p, out, id) ==
    IF Answered(S[p], out) THEN bridge_initialize(B, p, id) ELSE B

\* ------------------------------------------------------------- records
NoRecord == [status |-> "none", sandbox_id |-> 0, host_url |-> 0]

\* create_sandbox_project: the record as first committed.
NewRecord == [status |-> "initializing", sandbox_id |-> 0, host_url |-> 0]

\* The filter of start/stop preview and delete: a record with a sandbox id.
SandboxRecord(p) == db[p].status # "none" /\ db[p].sandbox_id # 0

\* ---------------------------------------------------------------- tasks
\* kind, project and position; the arguments sid (session_id) and initial
\* (is_initial_prompt); i, the entry of the initial-prompt block reached; sb,
\* the sandbox id a sequence got or returns; ret, how the called function
\* ended; emitted, the messages yielded so far; sent, the project_status
\* messages broadcast so far; pushed, the chunks generate_code has yielded so
\* far; stream, the response stream of generate_code ("-": never opened,
\* "orphan": left open by a generator nothing refers to any more); reqs, the
\* requests to the bridge the coroutine has issued so far; unresolved, the
\* kind of session_id argument from which the project id is still to be
\* found ("-": the project id is known).  For a run of
\* generate_diff_with_logging: callback, whether a log_callback was given
\* (emitted then holds the callbacks made); backend, the answer the bridge
\* gives to the requests of the run; session, the session id returned
\* (0: nothing returned, -1: an id made up from the time).
Idle == [kind |-> "idle", p |-> NoProject, pc |-> "-", sid |-> 0,
         initial |-> FALSE, i |-> 0, sb |-> 0, ret |-> "-",
         emitted |-> <<>>, sent |-> <<>>, pushed |-> <<>>, stream |-> "-",
         reqs |-> <<>>, unresolved |-> "-",
         callback |-> FALSE, backend |-> "-", session |-> 0]

\* The coroutine calls a method of its service: request op (i tells the
\* commands of a block and the chunks of a stream apart).
Issue(task, op, i) == [task EXCEPT !.reqs = Append(@, [op |-> op, i |-> i])]

NewTask(kind, p, pc) == [Idle EXCEPT !.kind = kind, !.p = p, !.pc = pc]

InFlight == {t \in TaskIds : tasks[t].kind # "idle"}
Running == {t \in TaskIds : tasks[t].kind # "idle" /\ tasks[t].pc \notin {"done", "raised"}}

\* The slot a newly scheduled coroutine takes.
FreeSlot(t) == /\ Cardinality(InFlight) < env.callers
               /\ tasks[t].kind = "idle"
               /\ \A u \in TaskIds : u < t => tasks[u].kind # "idle"

\* A call of an entry point: what it answered, a fact of the state it found
\* (prev) and the outcome of its bridge request (remote).
Call(op, p, out, prev, remote) ==
    [op |-> op, p |-> p, out |-> out, prev |-> prev, remote |-> remote]
Step(op, p, out) == Call(op, p, out, "-", "-")
\* A step of a coroutine in flight; what it did shows in the task.
TaskStep(p) == Step("task", p, "-")

\* The state after the process has started: empty cache, empty mapping, no
\* record, no file, nothing in flight; e is what the environment may do.
Start(e) ==
    /\ services = [p \in Projects |-> NoService]
    /\ session_mapping = [p \in Projects |-> 0]
    /\ db = [p \in Projects |-> NoRecord]
    /\ meta = [p \in Projects |-> 0]
    /\ bridge = [p \in Projects |-> NoSandbox]
    /\ nextSandbox = 0
    /\ tasks = [t \in TaskIds |-> Idle]
    /\ env = e
    /\ last = Step("init", NoProject, "-")

\* -------------------------------------------------- sandbox_crud: create
\* A create_sandbox_project without the check for an existing record.
create_sandbox_project_unchecked(p, t) ==
    /\ FreeSlot(t)
    /\ db' = [db EXCEPT ![p] = NewRecord]
    /\ tasks' = [tasks EXCEPT ![t] = NewTask("create", p, "broadcast_initializing")]
    /\ last' = Call("create", p, "accepted", db[p].status, "-")
    /\ UNCHANGED <<services, session_mapping, meta, bridge, nextSandbox, env>>

\* A create_sandbox_project that answers 400 for an existing record and
\* schedules the background task all the same.
create_sandbox_project_rescheduling(p, t) ==
    /\ FreeSlot(t)
    /\ db' = IF db[p].status = "none" THEN [db EXCEPT ![p] = NewRecord] ELSE db
    /\ tasks' = [tasks EXCEPT ![t] = NewTask("create", p, "broadcast_initializing")]
    /\ last' = Call("create", p, IF db[p].status = "none" THEN "accepted" ELSE "400",
                     db[p].status, "-")
    /\ UNCHANGED <<services, session_mapping, meta, bridge, nextSandbox, env>>

\* create_sandbox_project: 400 when a record exists; otherwise the record is
\* committed with status initializing and the background task is scheduled.
create_sandbox_project(p, t) ==
    /\ \/ /\ db[p].status # "none"
          /\ last' = Call("create", p, "400", db[p].status, "-")
          /\ UNCHANGED <<db, tasks>>
       \/ /\ db[p].status = "none"
          /\ FreeSlot(t)
          /\ db' = [db EXCEPT ![p] = NewRecord]
          /\ tasks' = [tasks EXCEPT ![t] = NewTask("create", p, "broadcast_initializing")]
          /\ last' = Call("create", p, "accepted", db[p].status, "-")
    /\ UNCHANGED <<services, session_mapping, meta, bridge, nextSandbox, env>>

\* initialize_sandbox_project_background, first await: the initializing message.
background_broadcast_initializing(t) ==
    /\ tasks[t].kind = "create" /\ tasks[t].pc = "broadcast_initializing"
    /\ tasks' = [tasks EXCEPT ![t].sent = Append(@, "initializing"), ![t].pc = "initialize"]
    /\ last' = TaskStep(tasks[t].p)
    /\ UNCHANGED <<services, session_mapping, db, meta, bridge, nextSandbox, env>>

\* initialize_project_sandbox, lines 33-36: the service, then initialize_sandbox.
initialize_project_sandbox_initialize(t, out) ==
    /\ tasks[t].kind = "create" /\ tasks[t].pc = "initialize"
    /\ LET p == tasks[t].p
           S == get_vibekit_service(services, p)
           id == nextSandbox + 1
       IN /\ Answered(S[p], out) => nextSandbox < env.sandboxes
          /\ services' = initialize_sandbox(S, p, out, id)
          /\ bridge' = AfterInitialize(bridge, S, p, out, id)
          /\ nextSandbox' = IF Answered(S[p], out) THEN id ELSE nextSandbox
          /\ tasks' = [tasks EXCEPT ![t] =
                [Issue(@, "initialize", 0)
                    EXCEPT !.pc = IF Answered(S[p], out) THEN "cd" ELSE "cleanup",
                           !.sb = IF Answered(S[p], out) THEN id ELSE 0]]
          /\ last' = TaskStep(p)
    /\ UNCHANGED <<session_mapping, db, meta, env>>

\* initialize_project_sandbox, line 40: "cd /vibe0 && pwd"; the result is not
\* looked at, only a raised error leaves the sequence.
initialize_project_sandbox_cd(t, out) ==
    /\ tasks[t].kind = "create" /\ tasks[t].pc = "cd"
    /\ LET p == tasks[t].p
           result == execute_command(services[p], out)
       IN /\ tasks' = [tasks EXCEPT ![t] =
                [Issue(@, "cd", 0) EXCEPT !.pc = IF result = "raised" THEN "cleanup" ELSE "get_host"]]
          /\ last' = Call("execute_command", p, result, "-", Remote(services[p], out))
    /\ UNCHANGED <<services, session_mapping, db, meta, bridge, nextSandbox, env>>

\* sandbox_project_exists: the metadata file is there (the file is written
\* with status active only).
sandbox_project_exists(M, p) == M[p] # 0

\* create_local_metadata: the file holds the sandbox id handed to it.
create_local_metadata(M, p, sandbox_id) == [M EXCEPT ![p] = sandbox_id]

\* A commit that sets the status and leaves the sandbox id and the host URL.
UpdateRecordStatusOnly(D, p, sandbox_id) ==
    IF D[p].status # "none" THEN [D EXCEPT ![p].status = "active"] ELSE D

\* initialize_sandbox_project_background, lines 98-106: the record, when it is
\* still there, gets the sandbox id, the host URL and status active.
UpdateRecord(D, p, sandbox_id) ==
    IF D[p].status # "none"
    THEN [D EXCEPT ![p] = [status |-> "active", sandbox_id |-> sandbox_id, host_url |-> 1]]
    ELSE D

\* An initialize_project_sandbox that writes the metadata file whatever the
\* host lookup did.
initialize_project_sandbox_get_host_eager(t, out, io) ==
    /\ tasks[t].kind = "create" /\ tasks[t].pc = "get_host"
    /\ LET p == tasks[t].p
           ok == Answered(services[p], out) /\ io = "ok"
       IN /\ Answered(services[p], out) \/ io = "ok"
          /\ meta' = IF io = "ok" THEN create_local_metadata(meta, p, tasks[t].sb) ELSE meta
          /\ db' = IF ok THEN UpdateRecord(db, p, tasks[t].sb) ELSE db
          /\ tasks' = [tasks EXCEPT ![t] =
                [Issue(@, "get_host", 0)
                    EXCEPT !.pc = IF ok THEN "broadcast_active" ELSE "cleanup",
                           !.ret = IF ok THEN "returned" ELSE @]]
          /\ last' = TaskStep(p)
    /\ UNCHANGED <<services, session_mapping, bridge, nextSandbox, env>>

\* initialize_project_sandbox, lines 48-61, and the caller's commit: get_host,
\* the metadata file (io: whether the write succeeds), the return, the record.
initialize_project_sandbox_get_host(t, out, io) ==
    /\ tasks[t].kind = "create" /\ tasks[t].pc = "get_host"
    /\ LET p == tasks[t].p
           ok == Answered(services[p], out) /\ io = "ok"
       IN /\ Answered(services[p], out) \/ io = "ok"
          /\ meta' = IF ok THEN create_local_metadata(meta, p, tasks[t].sb) ELSE meta
          /\ db' = IF ok THEN UpdateRecord(db, p, tasks[t].sb) ELSE db
          /\ tasks' = [tasks EXCEPT ![t] =
                [Issue(@, "get_host", 0)
                    EXCEPT !.pc = IF ok THEN "broadcast_active" ELSE "cleanup",
                           !.ret = IF ok THEN "returned" ELSE @]]
          /\ last' = TaskStep(p)
    /\ UNCHANGED <<services, session_mapping, bridge, nextSandbox, env>>

\* initialize_project_sandbox, lines 63-70: cleanup of the service, then the
\* error is raised again.
initialize_project_sandbox_cleanup(t, out) ==
    /\ tasks[t].kind = "create" /\ tasks[t].pc = "cleanup"
    /\ LET p == tasks[t].p
       IN /\ services' = cleanup(services, p)
          /\ bridge' = AfterCleanup(bridge, services, p, out)
          /\ tasks' = [tasks EXCEPT ![t] =
                [Issue(@, "cleanup", 0) EXCEPT !.pc = "broadcast_error", !.ret = "raised"]]
          /\ last' = Call("initialize_project_sandbox", p, "raised", "-", Remote(services[p], out))
    /\ UNCHANGED <<session_mapping, db, meta, nextSandbox, env>>

\* A handler that reports every outcome as active.
TerminalStatusAlwaysActive(pc) == "active"

\* The terminal message of initialize_sandbox_project_background: active after
\* the commit (lines 109-116), error in the handler (lines 127-133).
TerminalStatus(pc) == IF pc = "broadcast_active" THEN "active" ELSE "error"

background_broadcast_terminal(t) ==
    /\ tasks[t].kind = "create" /\ tasks[t].pc \in {"broadcast_active", "broadcast_error"}
    /\ tasks' = [tasks EXCEPT ![t].sent = Append(@, TerminalStatus(tasks[t].pc)),
                              ![t].pc = "done"]
    /\ last' = TaskStep(tasks[t].p)
    /\ UNCHANGED <<services, session_mapping, db, meta, bridge, nextSandbox, env>>

\* ------------------------------------------------- sandbox_crud: preview
\* start_sandbox_preview: 404 without a record that has a sandbox id;
\* otherwise start_preview_sandbox is scheduled.
start_sandbox_preview(p, t) ==
    /\ \/ /\ ~SandboxRecord(p)
          /\ last' = Step("start_preview", p, "404")
          /\ UNCHANGED tasks
       \/ /\ SandboxRecord(p)
          /\ FreeSlot(t)
          /\ tasks' = [tasks EXCEPT ![t] = NewTask("preview", p, "install")]
          /\ last' = Step("start_preview", p, "accepted")
    /\ UNCHANGED <<services, session_mapping, db, meta, bridge, nextSandbox, env>>

\* start_preview_sandbox: npm install, npm run dev (background), get_host; the
\* results are not looked at, a raised error is raised again.
\* A sequence that runs npm install again after npm run dev.
PreviewNextRetrying(pc) == IF pc = "install" THEN "dev" ELSE IF pc = "dev" THEN "install" ELSE "done"

\* A sequence that looks the host up right after npm install.
PreviewNextSkipping(pc) == IF pc = "install" THEN "host" ELSE "done"

PreviewNext(pc) == IF pc = "install" THEN "dev" ELSE IF pc = "dev" THEN "host" ELSE "done"

start_preview_sandbox(t, out) ==
    /\ tasks[t].kind = "preview" /\ tasks[t].pc \in {"install", "dev", "host"}
    /\ tasks[t].pc = "host" => out # "nonzero"
    /\ LET p == tasks[t].p
           S == IF tasks[t].pc = "install" THEN get_vibekit_service(services, p) ELSE services
           result == execute_command(S[p], out)
           raised == result = "raised"
       IN /\ services' = S
          /\ tasks' = [tasks EXCEPT ![t] =
                [Issue(@, tasks[t].pc, 0)
                    EXCEPT !.pc = IF raised THEN "raised" ELSE PreviewNext(tasks[t].pc),
                           !.sb = IF ~raised /\ tasks[t].pc = "host" THEN S[p].sandbox_id ELSE @]]
          /\ last' = IF tasks[t].pc = "host" THEN TaskStep(p)
                     ELSE Call("execute_command", p, result, "-", Remote(S[p], out))
    /\ UNCHANGED <<session_mapping, db, meta, bridge, nextSandbox, env>>

\* stop_sandbox_preview with stop_preview_sandbox: 404 without a record that
\* has a sandbox id; otherwise the service is cleaned up and True is returned.
stop_sandbox_preview(p, out) ==
    /\ \/ /\ ~SandboxRecord(p)
          /\ last' = Step("stop_preview", p, "404")
          /\ UNCHANGED <<services, bridge>>
       \/ /\ SandboxRecord(p)
          /\ LET S == get_vibekit_service(services, p)
             IN /\ services' = cleanup(S, p)
                /\ bridge' = AfterCleanup(bridge, S, p, out)
                /\ last' = Call("stop_preview", p, "stopped", "-",
                                 IF Answered(S[p], out) THEN "ok" ELSE "fail")
    /\ UNCHANGED <<session_mapping, db, meta, nextSandbox, tasks, env>>

\* -------------------------------------------------- sandbox_crud: delete
\* A delete_sandbox_project that cleans the service up before it answers.
delete_sandbox_project_inline(p, t) ==
    /\ SandboxRecord(p)
    /\ LET S == get_vibekit_service(services, p)
       IN /\ services' = cleanup(S, p)
          /\ bridge' = AfterCleanup(bridge, S, p, "ok")
    /\ db' = [db EXCEPT ![p] = NoRecord]
    /\ meta' = [meta EXCEPT ![p] = 0]
    /\ last' = Step("delete", p, "accepted")
    /\ UNCHANGED <<session_mapping, nextSandbox, tasks, env>>

\* delete_sandbox_project: 404 without a record that has a sandbox id;
\* otherwise cleanup_project_sandbox is scheduled and the record deleted.
delete_sandbox_project(p, t) ==
    /\ \/ /\ ~SandboxRecord(p)
          /\ last' = Step("delete", p, "404")
          /\ UNCHANGED <<db, tasks>>
       \/ /\ SandboxRecord(p)
          /\ FreeSlot(t)
          /\ db' = [db EXCEPT ![p] = NoRecord]
          /\ tasks' = [tasks EXCEPT ![t] = NewTask("cleanup", p, "cleanup")]
          /\ last' = Step("delete", p, "accepted")
    /\ UNCHANGED <<services, session_mapping, meta, bridge, nextSandbox, env>>

\* A cleanup_project_sandbox that keeps the metadata file when the DELETE
\* request was not answered 200.
cleanup_project_sandbox_guarded(t, out) ==
    /\ tasks[t].kind = "cleanup" /\ tasks[t].pc = "cleanup"
    /\ LET p == tasks[t].p
           S == get_vibekit_service(services, p)
       IN /\ services' = cleanup(S, p)
          /\ bridge' = AfterCleanup(bridge, S, p, out)
          /\ meta' = IF Answered(S[p], out) THEN [meta EXCEPT ![p] = 0] ELSE meta
          /\ tasks' = [tasks EXCEPT ![t] =
                [Issue(@, "cleanup", 0) EXCEPT !.pc = "done", !.ret = "returned"]]
          /\ last' = Call("cleanup_project_sandbox", p, "returned", "-",
                           IF Answered(S[p], out) THEN "ok" ELSE "fail")
    /\ UNCHANGED <<session_mapping, db, nextSandbox, env>>

\* cleanup_project_sandbox: cleanup of the service, then the metadata file
\* is removed; True is returned.
cleanup_project_sandbox(t, out) ==
    /\ tasks[t].kind = "cleanup" /\ tasks[t].pc = "cleanup"
    /\ LET p == tasks[t].p
           S == get_vibekit_service(services, p)
       IN /\ services' = cleanup(S, p)
          /\ bridge' = AfterCleanup(bridge, S, p, out)
          /\ meta' = [meta EXCEPT ![p] = 0]
          /\ tasks' = [tasks EXCEPT ![t] =
                [Issue(@, "cleanup", 0) EXCEPT !.pc = "done", !.ret = "returned"]]
          /\ last' = Call("cleanup_project_sandbox", p, "returned", "-",
                           IF Answered(S[p], out) THEN "ok" ELSE "fail")
    /\ UNCHANGED <<session_mapping, db, nextSandbox, env>>

\* ------------------------------------------------- adapter: the sessions
\* get_session_id: the entry of the mapping, None (0) without one.
get_session_id(p) == session_mapping[p]

\* A cleanup_session that leaves the entry in the mapping.
DeleteSessionKept(M, p) == M

\* cleanup_session, lines 493-494: the entry is deleted first.
DeleteSession(M, p) == [M EXCEPT ![p] = 0]

\* cleanup_session: the entry is deleted, then the service is cleaned up; an
\* error of the cleanup is logged.
cleanup_session(p, out) ==
    /\ LET S == get_vibekit_service(services, p)
       IN /\ session_mapping' = DeleteSession(session_mapping, p)
          /\ services' = cleanup(S, p)
          /\ bridge' = AfterCleanup(bridge, S, p, out)
          /\ last' = Call("cleanup_session", p, "returned",
                           IF session_mapping[p] # 0 THEN "entry" ELSE "none",
                           Remote(S[p], out))
    /\ UNCHANGED <<db, meta, nextSandbox, tasks, env>>

\* check_availability: a service of its own, outside the cache, is probed;
\* available only for status ok, and every error is turned into a result.
check_availability(out) ==
    /\ last' = Call("check_availability", NoProject,
                     IF health_check(out) = "ok" THEN "available" ELSE "unavailable",
                     "-", out)
    /\ UNCHANGED <<services, session_mapping, db, meta, bridge, nextSandbox, tasks, env>>

\* ------------------------------------- adapter: execute_with_streaming
\* Message kinds: message_type, and for info messages the event_type.
TerminalEvents == {"error", "completion"}

\* A generator that hands a message over ahead of the ones yielded before.
EmitFirst(task, ev) == [task EXCEPT !.emitted = <<ev>> \o @]

Emit(task, ev) == [task EXCEPT !.emitted = Append(@, ev)]

\* The initial-prompt block, lines 182-335, one entry per suspension point:
\* a yielded info message, an execute_command (hard: success=false raises;
\* soft: success=false is logged; none: the result is not looked at), the
\* get_host request, and the opening of the generate stream.
Yield(ev) == [op |-> "yield", check |-> "-", ev |-> ev]
Cmd(check) == [op |-> "cmd", check |-> check, ev |-> "-"]
Bootstrap ==
    << Yield("sandbox_init"),          \* 186
       Yield("project_creation"),      \* 208
       Cmd("none"),                    \* 226 export PATH
       Cmd("none"),                    \* 229 BUN_INSTALL >> .bashrc
       Cmd("none"),                    \* 230 PATH >> .bashrc
       Cmd("none"),                    \* 231 BUN_INSTALL >> .zshrc
       Cmd("none"),                    \* 232 PATH >> .zshrc
       Cmd("none"),                    \* 235 bun --version
       Cmd("none"),                    \* 239 rm -rf my-app*
       Cmd("hard"),                    \* 246 git clone template
       Cmd("hard"),                    \* 252 bun install
       Cmd("soft"),                    \* 258 file watcher limit
       Cmd("none"),                    \* 265 expo start (background)
       Yield("git_setup"),             \* 268
       Cmd("none"),                    \* 287 .env
       Cmd("none"),                    \* 290 git config
       Cmd("none"),                    \* 291 git init
       Cmd("none"),                    \* 292 git add
       Cmd("none"),                    \* 293 git commit
       [op |-> "get_host", check |-> "-", ev |-> "-"],   \* 299
       Yield("project_ready"),         \* 308
       [op |-> "generate", check |-> "-", ev |-> "-"] >> \* 335

\* Lines 181-182: the whole rest of the generator is the body of
\* "if is_initial_prompt"; without it the generator returns.
AfterSetup(task) ==
    IF task.initial THEN [task EXCEPT !.pc = "bootstrap", !.i = 1]
    ELSE [task EXCEPT !.pc = "done"]

\* A setup that goes on without set_session.
ToResumeSkipped(task) == AfterSetup(task)

\* Lines 148-150: set_session is awaited only for a session id given.
ToResume(task) ==
    IF task.sid # 0 THEN [task EXCEPT !.pc = "set_session"] ELSE AfterSetup(task)

\* The call of execute_with_streaming: a generator that has not run yet.
execute_with_streaming(p, t, sid, initial) ==
    /\ FreeSlot(t)
    /\ env.calls > 0
    /\ env' = [env EXCEPT !.calls = @ - 1]
    /\ tasks' = [tasks EXCEPT ![t] = [NewTask("generate", p, "setup")
                                        EXCEPT !.sid = sid, !.initial = initial]]
    /\ last' = Step("execute_with_streaming", p, "called")
    /\ UNCHANGED <<services, session_mapping, db, meta, bridge, nextSandbox>>

\* The session_id argument of a call whose project_path names no project:
\* None, the empty string, or a string that is not empty.
SessionArgs == {"none", "empty", "named"}

\* The call of execute_with_streaming with a project_path in which
\* _extract_project_id finds no project id.
execute_with_streaming_by_session(t, session, sid, initial) ==
    /\ FreeSlot(t)
    /\ env.calls > 0
    /\ session = "named" <=> sid # 0
    /\ env' = [env EXCEPT !.calls = @ - 1]
    /\ tasks' = [tasks EXCEPT ![t] = [NewTask("generate", NoProject, "resolve")
                                        EXCEPT !.sid = sid, !.initial = initial,
                                               !.unresolved = session]]
    /\ last' = Step("execute_with_streaming", NoProject, "called")
    /\ UNCHANGED <<services, session_mapping, db, meta, bridge, nextSandbox>>

\* Lines 80-103: the id found in the path; else the project the lookup by
\* session id found; else the part of the session id before its first "-".
\* With session_id None the test "'-' in session_id" raises TypeError, in
\* the try block and again in its handler; the empty string stays empty.
ResolveProject(path, session, found, derived) ==
    CASE path # NoProject -> path
      [] found # NoProject -> found
      [] session = "none" -> "raise"
      [] session = "empty" -> ""
      [] OTHER -> derived

\* Lines 80-117: the generator starts; found is the project of the record
\* the lookup by session id returns (NoProject: none, or the lookup failed),
\* derived the project id the session id begins with.  Without a project
\* id an error message is yielded and the generator returns.
execute_with_streaming_resolve(t, found, derived) ==
    /\ tasks[t].kind = "generate" /\ tasks[t].pc = "resolve"
    /\ LET r == ResolveProject(NoProject, tasks[t].unresolved, found, derived)
       IN /\ tasks' = [tasks EXCEPT ![t] =
                CASE r = "raise" -> [@ EXCEPT !.pc = "raised"]
                  [] r = "" -> [Emit(@, "error") EXCEPT !.pc = "done"]
                  [] OTHER -> [@ EXCEPT !.p = r, !.pc = "setup", !.unresolved = "-"]]
          /\ last' = Call("resolve", NoProject,
                           CASE r = "raise" -> "raised" [] r = "" -> "error" [] OTHER -> "resolved",
                           tasks[t].unresolved,
                           IF found = NoProject THEN "unmatched" ELSE "matched")
    /\ UNCHANGED <<services, session_mapping, db, meta, bridge, nextSandbox, env>>

\* Lines 122-144: the service; when it has no sandbox id, the initialization
\* message is yielded before initialize_sandbox is awaited.
execute_with_streaming_setup(t) ==
    /\ tasks[t].kind = "generate" /\ tasks[t].pc = "setup"
    /\ LET p == tasks[t].p
           S == get_vibekit_service(services, p)
       IN /\ services' = S
          /\ tasks' = [tasks EXCEPT ![t] =
                IF S[p].sandbox_id = 0
                THEN [Emit(@, "sandbox_initialization") EXCEPT !.pc = "initialize"]
                ELSE ToResume(@)]
          /\ last' = TaskStep(p)
    /\ UNCHANGED <<session_mapping, db, meta, bridge, nextSandbox, env>>

\* Lines 163-179: an error of the setup block is yielded as an error message
\* and the generator returns.
SetupError(task) == [Emit(task, "error") EXCEPT !.pc = "done"]

\* Line 146: initialize_sandbox.
execute_with_streaming_initialize(t, out) ==
    /\ tasks[t].kind = "generate" /\ tasks[t].pc = "initialize"
    /\ LET p == tasks[t].p
           id == nextSandbox + 1
           ok == Answered(services[p], out)
       IN /\ ok => nextSandbox < env.sandboxes
          /\ services' = initialize_sandbox(services, p, out, id)
          /\ bridge' = AfterInitialize(bridge, services, p, out, id)
          /\ nextSandbox' = IF ok THEN id ELSE nextSandbox
          /\ tasks' = [tasks EXCEPT ![t] = IF ok THEN ToResume(Issue(@, "initialize", 0))
                                            ELSE SetupError(Issue(@, "initialize", 0))]
          /\ last' = TaskStep(p)
    /\ UNCHANGED <<session_mapping, db, meta, env>>

\* Line 150: set_session with the session id given.
execute_with_streaming_set_session(t, out) ==
    /\ tasks[t].kind = "generate" /\ tasks[t].pc = "set_session"
    /\ LET p == tasks[t].p
           ok == Answered(services[p], out)
       IN /\ services' = set_session(services, p, out, tasks[t].sid)
          /\ bridge' = IF ok THEN bridge_set_session(bridge, p, tasks[t].sid) ELSE bridge
          /\ tasks' = [tasks EXCEPT ![t] = IF ok THEN AfterSetup(Issue(@, "set_session", 0))
                                            ELSE SetupError(Issue(@, "set_session", 0))]
          /\ last' = TaskStep(p)
    /\ UNCHANGED <<session_mapping, db, meta, nextSandbox, env>>

\* The bridge names the provider session of a project when a generate
\* request starts one (it may have none to report yet).
bridge_generate(B, p, sid) ==
    IF B[p].session = 0 THEN [B EXCEPT ![p].session = sid] ELSE B

\* A generate_code whose failed stream just ends.
StreamFailureSilent(task) ==
    [task EXCEPT !.pc = "done", !.ret = "stream_failed", !.stream = "closed"]

\* generate_code, lines 92-94: an error of the request or of the stream is
\* yielded as a chunk of type error, and the stream ends; the adapter turns
\* the chunk into an error message (lines 437-451).
StreamFailure(task) ==
    [Emit(task, "error") EXCEPT !.pc = "done", !.ret = "stream_failed", !.stream = "closed"]

\* A block that goes on after a clone or install that returned success
\* false.
BootstrapStepLenient(task, svc, out) ==
    LET ins == Bootstrap[task.i]
        raised == execute_command(svc, out) = "raised"
        next == [task EXCEPT !.i = @ + 1]
    IN CASE ins.op = "yield" -> Emit(next, ins.ev)
         [] ins.op \in {"cmd", "get_host"} ->
                IF raised THEN [task EXCEPT !.pc = "raised"] ELSE next
         [] OTHER ->
                IF raised THEN StreamFailure(task)
                ELSE [task EXCEPT !.pc = "chunks", !.stream = "open"]

\* One entry of the initial-prompt block.  A raised error leaves the
\* generator: nothing around lines 181-472 catches it.  A clone or install
\* that returned success false raises an error of its own (ret step_failed).
BootstrapStep(task, svc, out) ==
    LET ins == Bootstrap[task.i]
        raised == execute_command(svc, out) = "raised"
        next == [task EXCEPT !.i = @ + 1]
    IN CASE ins.op = "yield" -> Emit(next, ins.ev)
         [] ins.op = "cmd" ->
                IF raised THEN [task EXCEPT !.pc = "raised"]
                ELSE IF ins.check = "hard" /\ out = "nonzero"
                THEN [task EXCEPT !.pc = "raised", !.ret = "step_failed"]
                ELSE next
         [] ins.op = "get_host" ->
                IF raised THEN [task EXCEPT !.pc = "raised"] ELSE next
         [] OTHER ->
                IF raised THEN StreamFailure(task)
                ELSE [task EXCEPT !.pc = "chunks", !.stream = "open"]

execute_with_streaming_bootstrap(t, out, sid) ==
    /\ tasks[t].kind = "generate" /\ tasks[t].pc = "bootstrap"
    /\ LET p == tasks[t].p
           ins == Bootstrap[tasks[t].i]
       IN /\ ins.op = "yield" => out = "ok"
          /\ ins.op \in {"get_host", "generate"} => out # "nonzero"
          /\ tasks' = [tasks EXCEPT ![t] =
                BootstrapStep(IF ins.op = "yield" THEN @ ELSE Issue(@, ins.op, tasks[t].i),
                              services[p], out)]
          /\ bridge' = IF ins.op = "generate" /\ Answered(services[p], out)
                       THEN bridge_generate(bridge, p, sid) ELSE bridge
          /\ last' = TaskStep(p)
    /\ UNCHANGED <<services, session_mapping, db, meta, nextSandbox, env>>

\* The chunks the bridge pushes: the types of the protocol, update and
\* tool_use also with empty content, a type the adapter does not know, and
\* a data line that is no JSON.
ChunkTypes == {"update", "update_empty", "tool_use", "tool_use_empty", "todo_list",
               "code_generation", "error", "complete", "other", "malformed"}

\* Lines 340-451: the message a chunk is turned into ("-": none).
EventOf(c) ==
    CASE c = "update" -> "chat"
      [] c = "tool_use" -> "tool_use"
      [] c = "todo_list" -> "todo_list"
      [] c = "code_generation" -> "chat"
      [] c = "error" -> "error"
      [] OTHER -> "-"

\* One chunk of the stream reaches the loop of lines 335-472; a complete
\* chunk awaits get_session before its message is yielded.
OnChunk(task, c) ==
    IF c = "complete" THEN [task EXCEPT !.pc = "get_session"]
    ELSE IF EventOf(c) = "-" THEN task
    ELSE Emit(task, EventOf(c))

execute_with_streaming_chunk(t, c) ==
    /\ tasks[t].kind = "generate" /\ tasks[t].pc = "chunks"
    /\ env.chunks > 0
    /\ env' = [env EXCEPT !.chunks = @ - 1]
    /\ tasks' = [tasks EXCEPT ![t] = OnChunk([@ EXCEPT !.pushed = Append(@, c)], c)]
    /\ last' = TaskStep(tasks[t].p)
    /\ UNCHANGED <<services, session_mapping, db, meta, bridge, nextSandbox>>

\* The stream ends: the bridge closes it (the loop ends, the generator
\* returns), or the transport fails (generate_code yields an error chunk).
execute_with_streaming_end(t, out) ==
    /\ tasks[t].kind = "generate" /\ tasks[t].pc = "chunks"
    /\ tasks' = [tasks EXCEPT ![t] = IF out = "ok"
                                      THEN [@ EXCEPT !.pc = "done", !.stream = "closed"]
                                      ELSE StreamFailure(@)]
    /\ last' = TaskStep(tasks[t].p)
    /\ UNCHANGED <<services, session_mapping, db, meta, bridge, nextSandbox, env>>

\* A loop that yields the completion message without storing the session id.
StoreSessionSkipped(M, p, sid) == M

\* A mapping that keeps the entry it has.
StoreSessionOnce(M, p, sid) == IF sid # 0 /\ M[p] = 0 THEN [M EXCEPT ![p] = sid] ELSE M

\* Lines 455-456: the session id is stored when there is one.
StoreSession(M, p, sid) == IF sid # 0 THEN [M EXCEPT ![p] = sid] ELSE M

\* Lines 452-472: get_session, the mapping, the completion message; the loop
\* goes on with the next chunk.  An error of get_session leaves the generator.
execute_with_streaming_get_session(t, out) ==
    /\ tasks[t].kind = "generate" /\ tasks[t].pc = "get_session"
    /\ LET p == tasks[t].p
           ok == Answered(services[p], out)
           sid == bridge[p].session
       IN /\ services' = get_session(services, p, out, sid)
          /\ session_mapping' = IF ok THEN StoreSession(session_mapping, p, sid)
                                ELSE session_mapping
          /\ tasks' = [tasks EXCEPT ![t] =
                LET task == Issue(@, "get_session", Len(tasks[t].pushed))
                IN IF ok THEN [Emit(task, "completion") EXCEPT !.pc = "chunks"]
                   ELSE [task EXCEPT !.pc = "raised", !.stream = "orphan"]]
          /\ last' = Call("get_session", p,
                           IF ~ok THEN "raised" ELSE IF sid # 0 THEN "stored" ELSE "kept",
                           CASE session_mapping[p] = 0 -> "none"
                             [] session_mapping[p] = sid -> "same"
                             [] OTHER -> "other",
                           Remote(services[p], out))
    /\ UNCHANGED <<db, meta, bridge, nextSandbox, env>>

\* A generator that stores the bridge's session id when it is closed.
execute_with_streaming_aclose_storing(t) ==
    /\ tasks[t].kind = "generate" /\ tasks[t].pc \notin {"done", "raised", "cancelled"}
    /\ tasks' = [tasks EXCEPT ![t].pc = "cancelled",
                              ![t].stream = IF @ = "open" THEN "orphan" ELSE @]
    /\ session_mapping' = [q \in Projects |->
                              IF q = tasks[t].p THEN 1 ELSE session_mapping[q]]
    /\ last' = Step("aclose", tasks[t].p, "closed")
    /\ UNCHANGED <<services, db, meta, bridge, nextSandbox, env>>

\* The consumer closes the generator of execute_with_streaming while it is
\* suspended: GeneratorExit is raised there and nothing in lines 60-472
\* catches it; the loop of line 335 is left without closing the generator
\* of generate_code, which keeps its response stream.
execute_with_streaming_aclose(t) ==
    /\ tasks[t].kind = "generate" /\ tasks[t].pc \notin {"done", "raised", "cancelled"}
    /\ tasks' = [tasks EXCEPT ![t].pc = "cancelled",
                              ![t].stream = IF @ = "open" THEN "orphan" ELSE @]
    /\ last' = Step("aclose", tasks[t].p, "closed")
    /\ UNCHANGED <<services, session_mapping, db, meta, bridge, nextSandbox, env>>

\* A finalizer that leaves the response stream as it is.
CloseStreamLeft(task) == task

\* generate_code, lines 55-75: the generator that holds the response stream
\* is closed by the event loop's finalizer once nothing refers to it; the
\* "async with" block is left and the stream closed.
CloseStream(task) == [task EXCEPT !.stream = "closed"]

generate_code_aclose(t) ==
    /\ tasks[t].stream = "orphan"
    /\ tasks' = [tasks EXCEPT ![t] = CloseStream(@)]
    /\ last' = TaskStep(tasks[t].p)
    /\ UNCHANGED <<services, session_mapping, db, meta, bridge, nextSandbox, env>>

\* A finished coroutine leaves the event loop.
Reap(t) ==
    /\ tasks[t].pc \in {"done", "raised", "cancelled"}
    /\ tasks[t].stream # "orphan"
    /\ tasks' = [tasks EXCEPT ![t] = Idle]
    /\ last' = TaskStep(tasks[t].p)
    /\ UNCHANGED <<services, session_mapping, db, meta, bridge, nextSandbox, env>>

\* ------------------------------------- claude_act: generate_diff_with_logging
\* The parameters of the two methods of VibeKitService the function calls,
\* self left out: initialize_sandbox(self) and
\* generate_code(self, prompt, streaming=True).
Parameters ==
    [initialize_sandbox |-> << >>,
     generate_code |-> << [name |-> "prompt", required |-> TRUE],
                          [name |-> "streaming", required |-> FALSE] >>]

\* generate_code is an async generator function: its result cannot be awaited.
AsyncGenerators == {"generate_code"}

\* Python binds a call with that many positional and these keyword
\* arguments; when it cannot, the call raises TypeError.
Binds(method, positional, keywords) ==
    LET ps == Parameters[method]
        rest == (positional + 1)..Len(ps)
    IN /\ positional <= Len(ps)
       /\ keywords \subseteq {ps[k].name : k \in rest}
       /\ \A k \in rest : ps[k].required => ps[k].name \in keywords

\* log_callback is called only when one was given.
Log(task, kind) == IF task.callback THEN Emit(task, kind) ELSE task

\* Lines 232-236: the error callback, then RuntimeError is raised.
DiffFailed(task) == [Log(task, "error") EXCEPT !.pc = "raised", !.ret = "raised"]

\* Line 174: resume_session_id, or an id made up from the time.
CurrentSession(sid) == IF sid # 0 THEN sid ELSE -1

\* Lines 186-258.  Line 186 calls initialize_sandbox(project_id) and lines
\* 191-195 await generate_code(project_id=, prompt=, mode=); the result of
\* generate_code counts as success when the bridge answered.
DiffBody(task) ==
    IF ~Binds("initialize_sandbox", 1, {}) THEN DiffFailed(task)
    ELSE IF task.backend # "ok" THEN DiffFailed(Issue(task, "initialize", 0))
    ELSE LET initialized == Log(Issue(task, "initialize", 0), "text")
         IN IF \/ ~Binds("generate_code", 0, {"project_id", "prompt", "mode"})
               \/ "generate_code" \in AsyncGenerators
            THEN DiffFailed(initialized)
            ELSE [Log(Log(Log(Log(Issue(initialized, "generate", 0), "text"),
                              "tool_start"), "tool_result"), "result")
                    EXCEPT !.pc = "done", !.ret = "returned",
                           !.session = CurrentSession(task.sid)]

\* The call of generate_diff_with_logging: a coroutine that has not run yet.
generate_diff_with_logging(p, t, sid, callback, backend) ==
    /\ FreeSlot(t)
    /\ env.calls > 0
    /\ env' = [env EXCEPT !.calls = @ - 1]
    /\ tasks' = [tasks EXCEPT ![t] = [NewTask("diff", p, "start")
                                        EXCEPT !.sid = sid, !.callback = callback,
                                               !.backend = backend]]
    /\ last' = Step("generate_diff_with_logging", p, "called")
    /\ UNCHANGED <<services, session_mapping, db, meta, bridge, nextSandbox>>

\* Lines 153-183: a service of its own, outside the cache, and the first
\* callback.
generate_diff_start(t) ==
    /\ tasks[t].kind = "diff" /\ tasks[t].pc = "start"
    /\ tasks' = [tasks EXCEPT ![t] = [Log(@, "text") EXCEPT !.pc = "body"]]
    /\ last' = TaskStep(tasks[t].p)
    /\ UNCHANGED <<services, session_mapping, db, meta, bridge, nextSandbox, env>>

\* Lines 186-258: the rest of the run.
generate_diff_body(t) ==
    /\ tasks[t].kind = "diff" /\ tasks[t].pc = "body"
    /\ tasks' = [tasks EXCEPT ![t] = DiffBody(@)]
    /\ last' = Call("generate_diff_with_logging", tasks[t].p, DiffBody(tasks[t]).ret,
                     "-", tasks[t].backend)
    /\ UNCHANGED <<services, session_mapping, db, meta, bridge, nextSandbox, env>>

\* The CRUD entry points and their background tasks.
Lifecycle ==
    \/ \E p \in env.projects, t \in TaskIds : create_sandbox_project(p, t)
    \/ \E t \in TaskIds : background_broadcast_initializing(t)
    \/ \E t \in TaskIds, out \in Outcomes : initialize_project_sandbox_initialize(t, out)
    \/ \E t \in TaskIds, out \in CmdOutcomes : initialize_project_sandbox_cd(t, out)
    \/ \E t \in TaskIds, out \in Outcomes, io \in Outcomes :
          initialize_project_sandbox_get_host(t, out, io)
    \/ \E t \in TaskIds, out \in Outcomes : initialize_project_sandbox_cleanup(t, out)
    \/ \E t \in TaskIds : background_broadcast_terminal(t)
    \/ \E p \in env.projects, t \in TaskIds : start_sandbox_preview(p, t)
    \/ \E t \in TaskIds, out \in CmdOutcomes : start_preview_sandbox(t, out)
    \/ \E p \in env.projects, out \in Outcomes : stop_sandbox_preview(p, out)
    \/ \E p \in env.projects, t \in TaskIds : delete_sandbox_project(p, t)
    \/ \E t \in TaskIds, out \in Outcomes : cleanup_project_sandbox(t, out)
    \/ \E t \in TaskIds : Reap(t)

\* The adapter's operations.
Adapter ==
    \/ \E p \in env.projects, out \in Outcomes : cleanup_session(p, out)
    \/ \E p \in env.projects, t \in TaskIds, sid \in 0..env.sessions, initial \in BOOLEAN :
          execute_with_streaming(p, t, sid, initial)
    \/ \E t \in TaskIds, session \in SessionArgs, sid \in 0..env.sessions, initial \in BOOLEAN :
          execute_with_streaming_by_session(t, session, sid, initial)
    \/ \E t \in TaskIds, found \in env.projects \cup {NoProject}, derived \in env.projects :
          execute_with_streaming_resolve(t, found, derived)
    \/ \E t \in TaskIds : execute_with_streaming_setup(t)
    \/ \E t \in TaskIds, out \in Outcomes : execute_with_streaming_initialize(t, out)
    \/ \E t \in TaskIds, out \in Outcomes : execute_with_streaming_set_session(t, out)
    \/ \E t \in TaskIds, out \in CmdOutcomes, sid \in 0..env.sessions :
          execute_with_streaming_bootstrap(t, out, sid)
    \/ \E t \in TaskIds, c \in ChunkTypes : execute_with_streaming_chunk(t, c)
    \/ \E t \in TaskIds, out \in Outcomes : execute_with_streaming_end(t, out)
    \/ \E t \in TaskIds, out \in Outcomes : execute_with_streaming_get_session(t, out)
    \/ \E t \in TaskIds : generate_code_aclose(t)
    \/ \E t \in TaskIds : Reap(t)

\* The lifecycle entry points under concurrent requests.
Init == Start([calls |-> 0, chunks |-> 0, callers |-> MaxTasks, projects |-> {"p1"}, sessions |-> MaxSession, sandboxes |-> MaxSandboxes])
Next == Lifecycle
Spec == Init /\ [][Next]_vars

\* One caller of the adapter at a time: every invocation runs to its end
\* before the next operation.
StreamInit == Start([calls |-> MaxCalls, chunks |-> MaxChunks, callers |-> 1, projects |-> {"p1"}, sessions |-> MaxSession, sandboxes |-> MaxSandboxes])
StreamNext ==
    \/ Adapter
    \/ \E out \in ProbeOutcomes : Cardinality(InFlight) < env.callers /\ check_availability(out)
StreamSpec == StreamInit /\ [][StreamNext]_vars

\* Concurrent callers of the adapter.
RaceInit == Start([calls |-> MaxRaceCalls, chunks |-> MaxRaceChunks, callers |-> MaxTasks, projects |-> {"p1"}, sessions |-> MaxSession, sandboxes |-> MaxSandboxes])
RaceNext == Adapter
RaceSpec == RaceInit /\ [][RaceNext]_vars

\* One caller of the adapter that may close an invocation early; the event
\* loop keeps running, so a scheduled finalizer is run.
CancelInit == Start([calls |-> MaxCancelCalls, chunks |-> MaxCancelChunks, callers |-> 1, projects |-> {"p1"}, sessions |-> MaxSession, sandboxes |-> MaxSandboxes])
CancelNext == Adapter \/ \E t \in TaskIds : execute_with_streaming_aclose(t)
CancelSpec == /\ CancelInit /\ [][CancelNext]_vars
              /\ WF_vars(\E t \in TaskIds : generate_code_aclose(t))

\* One caller of the adapter that resumes sessions by their ids.
ResumeInit == Start([calls |-> MaxResumeCalls, chunks |-> MaxResumeChunks, callers |-> 1,
                     projects |-> {"p1"}, sessions |-> MaxResumeSession, sandboxes |-> MaxSandboxes])
ResumeNext == Adapter
ResumeSpec == ResumeInit /\ [][ResumeNext]_vars

\* One caller of the CRUD entry points and the adapter for two projects.
PairInit == Start([calls |-> MaxPairCalls, chunks |-> MaxPairChunks, callers |-> 1,
                   projects |-> Projects, sessions |-> MaxSession,
                   sandboxes |-> MaxPairSandboxes])
PairNext == Lifecycle \/ Adapter
PairSpec == PairInit /\ [][PairNext]_vars

\* The CRUD entry points and the adapter in one process.
FullInit == Start([calls |-> MaxFullCalls, chunks |-> MaxFullChunks, callers |-> MaxTasks, projects |-> {"p1"}, sessions |-> MaxSession, sandboxes |-> MaxSandboxes])
FullNext == Lifecycle \/ Adapter
FullSpec == FullInit /\ [][FullNext]_vars

\* Concurrent runs of generate_diff_with_logging.
DiffInit == Start([calls |-> MaxDiffCalls, chunks |-> 0, callers |-> MaxTasks,
                   projects |-> {"p1"}, sessions |-> MaxSession, sandboxes |-> MaxSandboxes])
DiffNext ==
    \/ \E p \in env.projects, t \in TaskIds, sid \in 0..env.sessions,
          callback \in BOOLEAN, backend \in Outcomes :
          generate_diff_with_logging(p, t, sid, callback, backend)
    \/ \E t \in TaskIds : generate_diff_start(t)
    \/ \E t \in TaskIds : generate_diff_body(t)
    \/ \E t \in TaskIds : Reap(t)
DiffSpec == DiffInit /\ [][DiffNext]_vars

\* ------------------------------------------------------------ properties
TerminalCount(seq) == Cardinality({k \in 1..Len(seq) : seq[k] \in TerminalEvents})
TerminalStatuses == {"active", "error"}
StatusCount(seq) == Cardinality({k \in 1..Len(seq) : seq[k] \in TerminalStatuses})
Ended(t) == tasks[t].pc \in {"done", "raised"}
\* The coroutine has run past its first suspension point and has not ended.
Started(t) == tasks[t].kind # "idle" /\ ~Ended(t)
                 /\ tasks[t].pc \notin {"setup", "broadcast_initializing"}

\* C1: between two teardowns of a project the bridge answers at most one
\* initialize request for it with success, whatever the interleaving of the
\* requests for the project.
C1_AtMostOneInitialize == \A p \in Projects : bridge[p].inits <= 1

\* C2: every invocation of execute_with_streaming that has ended has yielded
\* exactly one terminal message (completion or error) and did not end by a
\* raised error.
C2_ExactlyOneTerminalEvent ==
    \A t \in TaskIds :
        tasks[t].kind = "generate" /\ Ended(t)
            => tasks[t].pc = "done" /\ TerminalCount(tasks[t].emitted) = 1

\* C3: within one invocation no message is yielded after a terminal message:
\* a terminal message is the last one of the sequence.
C3_NothingAfterTerminalEvent ==
    \A t \in TaskIds :
        tasks[t].kind = "generate"
            => \A k \in 1..Len(tasks[t].emitted) :
                  tasks[t].emitted[k] \in TerminalEvents => k = Len(tasks[t].emitted)

\* C4: at most one operation of a project is executing at a time: no two
\* coroutines of the same project are both under way.
C4_OneOperationPerProject ==
    \A t, u \in TaskIds :
        t # u /\ Started(t) /\ Started(u) => tasks[t].p # tasks[u].p

\* C5 as stated: every background task scheduled by create, start_preview or
\* delete has, once it has ended, broadcast exactly one terminal
\* project_status message (active or error).
C5_EveryTaskOneTerminalStatus ==
    \A t \in TaskIds :
        tasks[t].kind \in {"create", "preview", "cleanup"} /\ Ended(t)
            => StatusCount(tasks[t].sent) = 1

\* C5 amended: a run of initialize_sandbox_project_background never ends by
\* a raised error and has, once ended, broadcast initializing and then
\* exactly one terminal message: active when initialize_project_sandbox
\* returned, error when it raised.  The background tasks of start_preview
\* and delete broadcast nothing.
C5_CreateOneTerminalStatus ==
    \A t \in TaskIds :
        /\ tasks[t].kind = "create" => tasks[t].pc # "raised"
        /\ tasks[t].kind = "create" /\ tasks[t].pc = "done"
              => tasks[t].sent = << "initializing",
                                    IF tasks[t].ret = "returned" THEN "active" ELSE "error" >>
        /\ tasks[t].kind \in {"preview", "cleanup"} => tasks[t].sent = << >>

C5_Witness ==
    \E t \in TaskIds :
        /\ tasks[t].kind = "create" /\ tasks[t].pc = "done" /\ tasks[t].ret = "raised"
        /\ tasks[t].sent = << "initializing", "error" >>

\* C6: right after cleanup_session(P) has returned, get_session_id(P) is
\* None, whatever the mapping held before and whatever the DELETE request
\* did; cleanup_session returns, it does not raise.
C6_CleanupSessionThenNone ==
    \A p \in Projects :
        last.op = "cleanup_session" /\ last.p = p
            => get_session_id(p) = 0 /\ last.out = "returned"

C6_Witness ==
    last.op = "cleanup_session" /\ last.prev = "entry" /\ last.remote = "fail"

\* C7 as stated: create for a project whose record is active with a sandbox
\* id returns the existing handle.
C7_CreateReturnsExistingHandle ==
    \A p \in Projects :
        last.op = "create" /\ last.p = p /\ last.prev = "active" => last.out = "existing"

\* C7 amended: create for a project whose record is active with a sandbox id
\* is answered 400 and changes nothing: no record, no task, no request to
\* the bridge, no change of the service.
C7_CreateOnReadyRejected ==
    [][\A p \in Projects, t \in TaskIds :
          SandboxRecord(p) /\ db[p].status = "active" /\ create_sandbox_project(p, t)
              => /\ last'.out = "400"
                 /\ UNCHANGED <<services, session_mapping, db, meta, bridge, nextSandbox, tasks>>]_vars

C7_Witness ==
    \E p \in Projects :
        /\ last.op = "create" /\ last.p = p /\ last.out = "400"
        /\ SandboxRecord(p) /\ db[p].status = "active" /\ bridge[p].inits = 1

\* C8: when the run of a create has ended and its provisioning call failed,
\* the last message is error, no sandbox id is recorded in the service or in
\* the record, and there is no metadata file.
C8_FailedProvisioningLeavesNoHandle ==
    \A t \in TaskIds :
        tasks[t].kind = "create" /\ tasks[t].pc = "done" /\ tasks[t].sb = 0
            => LET p == tasks[t].p
               IN /\ tasks[t].sent[Len(tasks[t].sent)] = "error"
                  /\ services[p].sandbox_id = 0
                  /\ db[p].sandbox_id = 0
                  /\ meta[p] = 0

\* C9: a create request that follows a create whose provisioning failed is
\* accepted.
C9_RetryAfterFailedProvisioning ==
    \A t \in TaskIds :
        /\ tasks[t].kind = "create" /\ tasks[t].pc = "done" /\ tasks[t].sb = 0
        /\ last.op = "create" /\ last.p = tasks[t].p
        => last.out = "accepted"

\* C10: right after a teardown of a project has returned, the project's
\* service holds no sandbox id and no session id (or is not cached) and the
\* session mapping has no entry for the project.
C10_TeardownRemovesHandle ==
    \A p \in Projects :
        /\ last.p = p
        /\ last.op \in {"stop_preview", "cleanup_project_sandbox", "cleanup_session"}
        /\ last.out \in {"stopped", "returned"}
        => /\ services[p].sandbox_id = 0
           /\ services[p].session_id = 0
           /\ session_mapping[p] = 0

\* The messages an invocation has yielded since it asked for the stream:
\* those after the project_ready message.
StreamPart(seq) ==
    IF \E k \in 1..Len(seq) : seq[k] = "project_ready"
    THEN LET k == CHOOSE j \in 1..Len(seq) : seq[j] = "project_ready"
         IN SubSeq(seq, k + 1, Len(seq))
    ELSE << >>

\* The messages a sequence of chunks stands for, in the order of the chunks.
EventOfChunk(c) == IF c = "complete" THEN "completion" ELSE EventOf(c)
Produced(chunks) ==
    LET f == SelectSeq(chunks, LAMBDA c : EventOfChunk(c) # "-")
    IN [k \in 1..Len(f) |-> EventOfChunk(f[k])]
TerminalChunks == {"error", "complete"}
LastIs(seq, x) == Len(seq) > 0 /\ seq[Len(seq)] = x
\* A step in which task t yields the message ev.
Yields(t, ev) ==
    /\ tasks'[t].kind = "generate" /\ tasks[t].kind = "generate"
    /\ tasks'[t].emitted = Append(tasks[t].emitted, ev)

\* C11: when the stream of an invocation fails after chunks that stand for n
\* content messages (none of them a terminal chunk), the invocation has
\* yielded, since it asked for the stream, exactly these n messages in
\* order and then one error message, and has returned.
C11_TransportFailureYieldsContentThenError ==
    \A t \in TaskIds :
        /\ tasks[t].kind = "generate" /\ tasks[t].ret = "stream_failed"
        /\ \A k \in 1..Len(tasks[t].pushed) : tasks[t].pushed[k] \notin TerminalChunks
        => /\ tasks[t].pc = "done"
           /\ StreamPart(tasks[t].emitted) = Produced(tasks[t].pushed) \o << "error" >>

C11_Witness ==
    \E t \in TaskIds :
        /\ tasks[t].ret = "stream_failed" /\ tasks[t].pushed = << "update", "update" >>
        /\ StreamPart(tasks[t].emitted) = << "chat", "chat", "error" >>

\* C12: the step that yields the completion message leaves the session
\* mapping of the project equal to the session id the bridge holds for it,
\* so that get_session_id returns that id; the invocation goes on and the
\* project's service still has its sandbox.
C12_CompletionStoresSession ==
    [][\A t \in TaskIds :
          Yields(t, "completion")
              => LET p == tasks[t].p
                 IN /\ session_mapping'[p] = bridge[p].session
                    /\ services'[p].session_id = bridge[p].session
                    /\ services'[p].sandbox_id = services[p].sandbox_id
                    /\ tasks'[t].pc = "chunks"]_vars

C12_Witness ==
    \E t \in TaskIds :
        /\ tasks[t].kind = "generate" /\ LastIs(tasks[t].emitted, "completion")
        /\ LastIs(tasks[t].pushed, "complete")
        /\ bridge[tasks[t].p].session # 0
        /\ get_session_id(tasks[t].p) = bridge[tasks[t].p].session

\* C13: the step in which an invocation yields an error message sends no
\* teardown request and changes neither the sandbox id of the project's
\* service nor the session mapping.
C13_ErrorPreservesHandle ==
    [][\A t \in TaskIds :
          Yields(t, "error")
              => LET p == tasks[t].p
                 IN /\ p \in Projects
                       => /\ services'[p].client # "absent"
                          /\ services'[p].sandbox_id = get_vibekit_service(services, p)[p].sandbox_id
                          /\ services'[p].client = get_vibekit_service(services, p)[p].client
                    /\ p \notin Projects => services' = services
                    /\ bridge' = bridge
                    /\ session_mapping' = session_mapping]_vars

C13_Witness ==
    \E t \in TaskIds :
        /\ tasks[t].kind = "generate" /\ tasks[t].pc = "done"
        /\ LastIs(tasks[t].emitted, "error")
        /\ tasks[t].p \in Projects
        /\ services[tasks[t].p].sandbox_id # 0
        /\ bridge[tasks[t].p].sandbox = services[tasks[t].p].sandbox_id
        /\ session_mapping[tasks[t].p] # 0

\* C16: the messages an invocation has yielded since it asked for the
\* stream are the messages its chunks stand for, in the order of the
\* chunks (the completion of a last complete chunk may still be
\* outstanding), followed by the error message of a failed stream.
C16_EventsInChunkOrder ==
    \A t \in TaskIds :
        tasks[t].kind = "generate"
            => LET S == StreamPart(tasks[t].emitted)
                   E == Produced(tasks[t].pushed)
                   F == IF tasks[t].ret = "stream_failed" THEN E \o << "error" >> ELSE E
               IN \/ S = F
                  \/ /\ LastIs(tasks[t].pushed, "complete")
                     /\ tasks[t].pc \in {"get_session", "raised", "cancelled"}
                     /\ S = SubSeq(E, 1, Len(E) - 1)

C16_Witness ==
    \E t \in TaskIds :
        /\ tasks[t].pushed = << "tool_use", "update", "complete" >>
        /\ StreamPart(tasks[t].emitted) = << "tool_use", "chat", "completion" >>

\* C17: check_availability returns a result for every outcome of the probe,
\* available exactly when the probe reported status ok, and changes neither
\* the session mapping nor the service cache.
C17_CheckAvailabilityNeverRaises ==
    [][\A out \in ProbeOutcomes :
          check_availability(out)
              => /\ last'.out \in {"available", "unavailable"}
                 /\ last'.out = "available" <=> out = "ok"
                 /\ UNCHANGED <<session_mapping, services>>]_vars

C17_Witness ==
    /\ last.op = "check_availability" /\ last.remote = "fail" /\ last.out = "unavailable"
    /\ \E p \in Projects : session_mapping[p] # 0 /\ services[p].sandbox_id # 0

\* C18: a cleanup_session(P) that directly follows a cleanup_session(P)
\* returns and changes nothing: the mapping has no entry for P, as after
\* the first call, and the service and the bridge stay as they were.
C18_CleanupSessionIdempotent ==
    [][\A p \in Projects, out \in Outcomes :
          last.op = "cleanup_session" /\ last.p = p /\ cleanup_session(p, out)
              => /\ last'.out = "returned"
                 /\ session_mapping'[p] = 0
                 /\ UNCHANGED <<session_mapping, services, bridge>>]_vars

C18_Witness ==
    \E p \in Projects :
        /\ last.op = "cleanup_session" /\ last.p = p /\ last.remote = "unsent"
        /\ last.prev = "none" /\ services[p].sandbox_id # 0

\* C19: execute_command raises exactly when the request was not answered
\* 200 (not sent, or failed); a non-zero exit status is returned as a
\* result with success false.
C19_NonZeroExitIsReturned ==
    last.op = "execute_command"
        => /\ last.out = "raised" <=> last.remote \in {"unsent", "fail"}
           /\ last.out = "failure" <=> last.remote = "nonzero"
           /\ last.out = "success" <=> last.remote = "ok"

C19_Witness ==
    last.op = "execute_command" /\ last.remote = "nonzero" /\ last.out = "failure"

\* C20: in a multi-step sequence a command that returned success false stops
\* the sequence: the step of initialize_project_sandbox or
\* start_preview_sandbox whose command returned success false issues no
\* later step.
C20_FailedStepStopsSequence ==
    [][\A t \in TaskIds :
          /\ tasks[t].kind \in {"create", "preview"}
          /\ tasks'[t] # tasks[t]
          /\ last'.op = "execute_command" /\ last'.out = "failure"
          => tasks'[t].pc \in {"raised", "cleanup"}]_vars

\* C14: a delete that is accepted for a project while an invocation of
\* execute_with_streaming for it is under way cancels the invocation before
\* the teardown is scheduled; and when the teardown has run, no invocation
\* for the project is under way and the session mapping has no entry for it.
UnderWay(T, p) == \E t \in TaskIds : /\ T[t].kind = "generate" /\ T[t].p = p
                                      /\ T[t].pc \notin {"done", "raised", "cancelled"}
C14_DeleteCancelsGeneration ==
    [][\A p \in Projects :
          /\ (\E t \in TaskIds : delete_sandbox_project(p, t)) /\ last'.out = "accepted"
                 => ~UnderWay(tasks', p)
          /\ (\E t \in TaskIds, out \in Outcomes :
                     cleanup_project_sandbox(t, out) /\ tasks[t].p = p)
                 => ~UnderWay(tasks', p) /\ session_mapping'[p] = 0]_vars

\* C15: an invocation closed early by its consumer is no longer under way,
\* and its response stream, when it had one, is closed in the end: it does
\* not stay open, half consumed.
C15_CancelledStreamIsClosed ==
    \A t \in TaskIds :
        (tasks[t].pc = "cancelled")
            ~> (tasks[t].kind = "idle" \/ (tasks[t].pc = "cancelled" /\ tasks[t].stream \in {"-", "closed"}))

C15_Witness ==
    \E t \in TaskIds :
        /\ tasks[t].pc = "cancelled" /\ tasks[t].stream = "closed"
        /\ Len(tasks[t].pushed) > 0 /\ ~UnderWay(tasks, tasks[t].p)

\* C21 as stated: the failure handling of initialize_project_sandbox, entered
\* after provisioning succeeded, sends no teardown request and leaves the
\* service and the bridge as they are.
C21_FailedBootstrapLeavesSandbox ==
    [][\A t \in TaskIds, out \in Outcomes :
          initialize_project_sandbox_cleanup(t, out) /\ tasks[t].sb # 0
              => /\ last'.remote = "unsent"
                 /\ UNCHANGED <<services, bridge>>]_vars

\* C21 amended: the failure handling of initialize_project_sandbox, entered
\* after provisioning succeeded, issues no further step of the sequence but
\* cleans the service up: the DELETE request is sent unless the client was
\* closed before, the bridge drops the sandbox when it answers 200, the
\* client is closed, and the run goes on to broadcast error.
C21_FailedBootstrapTearsDown ==
    [][\A t \in TaskIds, out \in Outcomes :
          initialize_project_sandbox_cleanup(t, out) /\ tasks[t].sb # 0
              => LET p == tasks[t].p
                 IN /\ tasks'[t].pc = "broadcast_error"
                    /\ tasks'[t].reqs = Append(tasks[t].reqs, [op |-> "cleanup", i |-> 0])
                    /\ services'[p].client = "closed"
                    /\ services[p].client = "open" => last'.remote = out
                    /\ services[p].client = "open" /\ out = "ok" => bridge'[p] = NoSandbox
                    /\ db' = db /\ meta' = meta]_vars

C21_Witness ==
    \E t \in TaskIds :
        /\ tasks[t].kind = "create" /\ tasks[t].sb # 0 /\ tasks[t].ret = "raised"
        /\ tasks[t].pc = "done" /\ LastIs(tasks[t].sent, "error")
        /\ bridge[tasks[t].p] = NoSandbox /\ services[tasks[t].p].client = "closed"
        /\ \A k \in 1..Len(tasks[t].reqs) : tasks[t].reqs[k].op # "get_host"

\* C22: an initialize request is not sent for a project while an invocation
\* whose setup failed for it stands (no teardown of the project has been
\* made since: a teardown closes the client, and nothing is sent through a
\* closed client).
FailedSetup(task) ==
    /\ task.kind = "generate" /\ task.pc = "done"
    /\ LastIs(task.emitted, "error") /\ task.stream = "-"
C22_NoInitializeAfterFailedSetup ==
    [][\A t \in TaskIds, out \in Outcomes :
          execute_with_streaming_initialize(t, out) /\ Sent(services[tasks[t].p])
              => ~\E u \in TaskIds : u # t /\ FailedSetup(tasks[u]) /\ tasks[u].p = tasks[t].p]_vars

\* C23: no coroutine issues the same request of its sequence twice.
C23_NoRequestTwice ==
    \A t \in TaskIds :
        \A j, k \in 1..Len(tasks[t].reqs) :
            j # k => tasks[t].reqs[j] # tasks[t].reqs[k]

C23_Witness ==
    \E t, u \in TaskIds :
        /\ tasks[t].kind = "preview" /\ tasks[t].pc = "raised" /\ Len(tasks[t].reqs) = 2
        /\ tasks[u].kind = "generate" /\ tasks[u].pc = "raised" /\ Len(tasks[u].reqs) > 2

\* C24: when execute_with_streaming finds no project id in the path and the
\* lookup by session id matches no project, it yields one error message and
\* returns: it does not raise and does not go on to the setup of any project.
C24_UnresolvedProjectFailsFast ==
    last.op = "resolve" /\ last.remote = "unmatched" => last.out = "error"

\* C25: a stop or delete request for a project that has a record and no
\* create run under way (the project is ready, or its initialization has
\* failed) is accepted.
Initializing(p) ==
    \E u \in TaskIds : tasks[u].kind = "create" /\ tasks[u].p = p /\ ~Ended(u)
C25_StopDeleteAcceptedFromError ==
    [][\A p \in Projects :
          /\ db[p].status # "none" /\ ~Initializing(p)
          /\ \/ \E t \in TaskIds : delete_sandbox_project(p, t)
             \/ \E out \in Outcomes : stop_sandbox_preview(p, out)
          => last'.out \in {"accepted", "stopped"}]_vars

\* C26 as stated: create, start_preview, stop_preview and delete answer
\* before any of the work they trigger has run: the step that answers
\* leaves the services, the bridge and the metadata files as they are.
C26_AllAcknowledgedBeforeWork ==
    [][\A p \in Projects :
          /\ \/ \E t \in TaskIds : create_sandbox_project(p, t)
             \/ \E t \in TaskIds : start_sandbox_preview(p, t)
             \/ \E t \in TaskIds : delete_sandbox_project(p, t)
             \/ \E out \in Outcomes : stop_sandbox_preview(p, out)
          /\ last'.out \in {"accepted", "stopped"}
          => UNCHANGED <<services, bridge, meta>>]_vars

\* C26 amended: create, start_preview and delete answer before any of the
\* work they trigger has run: the step that answers leaves the services,
\* the bridge and the metadata files as they are and schedules a task that
\* has issued no request yet.  stop_preview answers after the cleanup of
\* the service: its step closes the client and schedules nothing.
C26_AcknowledgedBeforeWorkButStop ==
    [][\A p \in Projects :
          /\ \A t \in TaskIds :
                /\ \/ create_sandbox_project(p, t)
                   \/ start_sandbox_preview(p, t)
                   \/ delete_sandbox_project(p, t)
                /\ last'.out = "accepted"
                => /\ UNCHANGED <<services, bridge, meta>>
                   /\ tasks[t].kind = "idle" /\ tasks'[t].kind # "idle"
                   /\ tasks'[t].p = p /\ tasks'[t].reqs = << >>
          /\ \A out \in Outcomes :
                stop_sandbox_preview(p, out) /\ last'.out = "stopped"
                => /\ services'[p].client = "closed"
                   /\ tasks' = tasks]_vars

C26_Witness ==
    \E p \in Projects, t \in TaskIds :
        /\ last.op = "delete" /\ last.p = p /\ last.out = "accepted"
        /\ tasks[t].kind = "cleanup" /\ tasks[t].p = p /\ tasks[t].reqs = << >>
        /\ services[p].client = "open" /\ bridge[p].sandbox # 0 /\ meta[p] # 0

\* C27: a teardown returns whatever the DELETE request did and leaves the
\* client of the service closed; cleanup_project_sandbox has removed the
\* metadata file then, also when the DELETE request failed.
C27_TeardownFailureNotRaised ==
    \A p \in Projects :
        /\ last.p = p
        /\ last.op \in {"cleanup_project_sandbox", "stop_preview", "initialize_project_sandbox"}
        /\ last.out # "404"
        => /\ services[p].client = "closed"
           /\ last.op = "cleanup_project_sandbox" => last.out = "returned" /\ meta[p] = 0
           /\ last.op = "stop_preview" => last.out = "stopped"

C27_Witness ==
    \E p \in Projects :
        /\ last.op = "cleanup_project_sandbox" /\ last.p = p /\ last.remote = "fail"
        /\ bridge[p].sandbox # 0 /\ meta[p] = 0 /\ services[p].client = "closed"

\* C28: the session mapping of a project changes only by a store or by a
\* cleanup: the step that yields a completion message leaves it at the
\* session id the bridge reported, whatever entry it held before, a
\* cleanup_session leaves it without an entry, and every other step leaves
\* it as it is; so get_session_id returns the id stored last since the last
\* cleanup, or None.
C28_SessionMappingOverwrites ==
    [][\A p \in Projects :
          /\ \A t \in TaskIds :
                Yields(t, "completion") /\ tasks[t].p = p /\ bridge[p].session # 0
                    => get_session_id(p)' = bridge[p].session
          /\ last'.op = "cleanup_session" /\ last'.p = p => get_session_id(p)' = 0
          /\ get_session_id(p)' # get_session_id(p)
                => \/ last'.op = "cleanup_session" /\ last'.p = p
                   \/ \E t \in TaskIds : Yields(t, "completion") /\ tasks[t].p = p]_vars

C28_Witness ==
    \E p \in Projects :
        /\ last.op = "get_session" /\ last.p = p /\ last.out = "stored" /\ last.prev = "other"
        /\ get_session_id(p) = bridge[p].session

C30_EntryOnlyByCompletion ==
    [][/\ \A p \in Projects :
             session_mapping'[p] # session_mapping[p] /\ session_mapping'[p] # 0
                 => \E t \in TaskIds : /\ Yields(t, "completion") /\ tasks[t].p = p
                                        /\ LastIs(tasks[t].pushed, "complete")
       /\ \A t \in TaskIds :
             tasks'[t] # tasks[t] /\ ~Yields(t, "completion")
                 => session_mapping' = session_mapping]_vars

C30_Witness ==
    \E t \in TaskIds :
        /\ tasks[t].pc = "cancelled" /\ LastIs(tasks[t].pushed, "complete")
        /\ ~LastIs(tasks[t].emitted, "completion")
        /\ bridge[tasks[t].p].session # 0 /\ session_mapping[tasks[t].p] = 0

\* C31: the record follows the outcome of the background initialization: it
\* is committed with status initializing when the create is accepted, and
\* when the run of initialize_sandbox_project_background ends the record is
\* not initializing any more: its status is error when
\* initialize_project_sandbox raised.
C31_RecordFollowsOutcome ==
    [][\A t \in TaskIds :
          LET p == tasks'[t].p
          IN /\ tasks[t].kind = "idle" /\ tasks'[t].kind = "create"
                   => db'[p].status = "initializing"
             /\ tasks'[t].kind = "create" /\ tasks[t].pc # "done" /\ tasks'[t].pc = "done"
                   => /\ db'[p].status # "initializing"
                      /\ tasks'[t].ret = "raised" => db'[p].status = "error"]_vars

\* C32: a create for a project id that has a record, whatever its status,
\* is answered 400 and changes nothing: no record, no task scheduled, no
\* request to the bridge, no change of the service or of the metadata file.
C32_CreateOnExistingRejected ==
    [][\A p \in Projects, t \in TaskIds :
          db[p].status # "none" /\ create_sandbox_project(p, t)
              => /\ last'.out = "400"
                 /\ UNCHANGED <<services, session_mapping, db, meta, bridge,
                                nextSandbox, tasks>>]_vars

C32_Witness ==
    \E p \in Projects :
        /\ last.op = "create" /\ last.p = p /\ last.out = "400"
        /\ last.prev = "initializing" /\ db[p] = NewRecord
        /\ \E t \in TaskIds : tasks[t].kind = "create" /\ tasks[t].p = p /\ tasks[t].pc = "initialize"

\* C33: no chunk that stands for a message is dropped: the messages an
\* invocation has yielded since it asked for the stream are exactly the
\* messages its chunks stand for, one per chunk of type update, tool_use
\* (both with content), todo_list, code_generation, error or complete and
\* none for any other chunk, followed by the error message of a failed
\* stream; only while get_session is awaited the completion message of
\* the last complete chunk is outstanding.
C33_NoContentChunkDropped ==
    \A t \in TaskIds :
        tasks[t].kind = "generate"
            => LET S == StreamPart(tasks[t].emitted)
                   E == Produced(tasks[t].pushed)
                   F == IF tasks[t].ret = "stream_failed" THEN E \o << "error" >> ELSE E
               IN \/ S = F
                  \/ /\ LastIs(tasks[t].pushed, "complete")
                     /\ tasks[t].pc = "get_session"
                     /\ S = SubSeq(E, 1, Len(E) - 1)

\* The requests of the initial-prompt block and of the generation.
Work == {"cmd", "get_host", "generate"}

\* C34: in an invocation with a session id every command, get_host and
\* generate request comes after a set_session request of the invocation,
\* and the block of commands is entered only by the step of set_session;
\* that step either succeeds (service and bridge hold the session id,
\* nothing is yielded) or yields an error message and ends the invocation
\* without a change of service or bridge, after which it issues nothing.
C34_SetSessionBeforeWork ==
    [][\A t \in TaskIds :
          /\ tasks'[t].kind = "generate" /\ tasks'[t].sid # 0
                => \A k \in 1..Len(tasks'[t].reqs) :
                      tasks'[t].reqs[k].op \in Work
                          => \E j \in 1..(k - 1) : tasks'[t].reqs[j].op = "set_session"
          /\ tasks[t].kind = "generate" /\ tasks[t].sid # 0 /\ tasks'[t] # tasks[t]
                => LET p == tasks[t].p
                   IN /\ tasks[t].pc = "set_session"
                            => \/ /\ tasks'[t].emitted = tasks[t].emitted
                                  /\ tasks'[t].pc \in {"bootstrap", "done"}
                                  /\ services'[p].session_id = tasks[t].sid
                                  /\ bridge'[p].session = tasks[t].sid
                               \/ /\ Yields(t, "error")
                                  /\ tasks'[t].pc = "done"
                                  /\ UNCHANGED <<services, bridge>>
                      /\ tasks[t].pc # "bootstrap" /\ tasks'[t].pc = "bootstrap"
                            => tasks[t].pc = "set_session"
                      /\ tasks[t].pc = "done" => tasks'[t] = Idle]_vars

C34_Witness ==
    \E t \in TaskIds :
        /\ tasks[t].kind = "generate" /\ tasks[t].sid = MaxResumeSession
        /\ tasks[t].pc = "chunks"
        /\ tasks[t].reqs[1].op = "set_session"
        /\ services[tasks[t].p].session_id = tasks[t].sid

\* C35: in the initial-prompt block a clone or install command that was
\* answered with success false ends the invocation by a raised error: the
\* failed command is the last request of the invocation, no get_host and
\* no generate request is among its requests, no project_ready message
\* among its messages, and it takes no further step.
C35_FailedCloneOrInstallAborts ==
    [][\A t \in TaskIds :
          /\ /\ tasks[t].kind = "generate" /\ tasks[t].pc = "bootstrap"
             /\ Bootstrap[tasks[t].i].check = "hard"
             /\ Sent(services[tasks[t].p])
             /\ \E sid \in 0..MaxSession : execute_with_streaming_bootstrap(t, "nonzero", sid)
             => tasks'[t].ret = "step_failed"
          /\ tasks'[t].ret = "step_failed"
             => LET task == tasks'[t]
                IN /\ task.pc = "raised"
                   /\ Bootstrap[task.i].check = "hard"
                   /\ task.reqs[Len(task.reqs)] = [op |-> "cmd", i |-> task.i]
                   /\ \A k \in 1..Len(task.reqs) :
                         /\ task.reqs[k].op \notin {"get_host", "generate"}
                         /\ task.reqs[k].op = "cmd" => task.reqs[k].i <= task.i
                   /\ \A k \in 1..Len(task.emitted) : task.emitted[k] # "project_ready"
          /\ tasks[t].ret = "step_failed" /\ tasks'[t] # tasks[t] => tasks'[t] = Idle]_vars

C35_Witness ==
    \E t \in TaskIds :
        /\ tasks[t].kind = "generate" /\ tasks[t].ret = "step_failed"
        /\ tasks[t].i = 11 /\ tasks[t].pc = "raised"
        /\ LastIs(tasks[t].emitted, "project_creation")

\* The steps of start_preview_sandbox in the order of the code.
PreviewSteps == << "install", "dev", "host" >>

\* C36: the requests of a run of start_preview_sandbox are npm install,
\* npm run dev and the host lookup, in this order and each at most once; a
\* step whose request was not answered (not sent, or failed) raises and
\* the run takes no further step; an answered step goes on to the next
\* one, and the run that returns has issued all three and returns the
\* sandbox id its service holds, which is not empty; no step sends an
\* initialize or a teardown request.
C36_PreviewStepsInOrder ==
    [][\A t \in TaskIds :
          /\ tasks'[t].kind = "preview"
                => /\ Len(tasks'[t].reqs) <= Len(PreviewSteps)
                   /\ \A k \in 1..Len(tasks'[t].reqs) : tasks'[t].reqs[k].op = PreviewSteps[k]
          /\ tasks[t].kind = "preview"
                => LET p == tasks[t].p
                       S == get_vibekit_service(services, p)
                   IN /\ \A out \in CmdOutcomes :
                            start_preview_sandbox(t, out)
                                => /\ Remote(S[p], out) \in {"unsent", "fail"}
                                         => tasks'[t].pc = "raised"
                                   /\ Remote(S[p], out) \in {"ok", "nonzero"}
                                         => /\ tasks'[t].pc # "raised"
                                            /\ Len(tasks'[t].reqs) = Len(PreviewSteps)
                                                  <=> tasks'[t].pc = "done"
                                   /\ UNCHANGED <<bridge, nextSandbox, db, meta>>
                                   /\ services'[p].sandbox_id = S[p].sandbox_id
                                   /\ services'[p].client = S[p].client
                      /\ tasks[t].pc # "done" /\ tasks'[t].pc = "done"
                            => /\ tasks'[t].sb = services[p].sandbox_id
                               /\ tasks'[t].sb # 0
                      /\ tasks[t].pc = "raised" /\ tasks'[t] # tasks[t]
                            => tasks'[t] = Idle]_vars

C36_Witness ==
    \E t \in TaskIds :
        /\ tasks[t].kind = "preview" /\ tasks[t].pc = "done"
        /\ [k \in 1..Len(tasks[t].reqs) |-> tasks[t].reqs[k].op] = PreviewSteps
        /\ tasks[t].sb = bridge[tasks[t].p].sandbox /\ tasks[t].sb # 0

\* The operations that tear a project's sandbox down.
Teardowns == {"stop_preview", "cleanup_project_sandbox", "cleanup_session",
              "initialize_project_sandbox"}

\* C37: no request is attempted through a service whose client is closed,
\* and right after a teardown of a project get_vibekit_service returns for
\* it a service with an open client and without a sandbox id.
C37_NoRequestThroughClosedClient ==
    /\ last.remote # "unsent"
    /\ \A p \in Projects :
          last.op \in Teardowns /\ last.p = p
              => LET svc == get_vibekit_service(services, p)[p]
                 IN svc.client = "open" /\ svc.sandbox_id = 0

\* C38: the record is committed before the observers are told: the step
\* after which the active message is due leaves the record active with the
\* sandbox id of the run and a host URL, the active message not yet
\* broadcast; the active message is broadcast only from there; every
\* active record has a sandbox id; and the first message a run of
\* initialize_sandbox_project_background broadcasts is initializing.
C38_RecordCommittedBeforeActive ==
    [][/\ \A p \in Projects : db'[p].status = "active" => db'[p].sandbox_id # 0
       /\ \A t \in TaskIds :
             LET p == tasks'[t].p
             IN /\ tasks'[t].kind = "create" /\ tasks'[t].sent # << >>
                      => tasks'[t].sent[1] = "initializing"
                /\ tasks'[t].kind = "create" /\ tasks'[t].pc = "broadcast_active"
                   /\ tasks[t].pc # "broadcast_active"
                      => /\ db'[p] = [status |-> "active", sandbox_id |-> tasks'[t].sb,
                                       host_url |-> 1]
                         /\ tasks'[t].sb # 0
                         /\ \A k \in 1..Len(tasks'[t].sent) : tasks'[t].sent[k] # "active"
                /\ tasks'[t].kind = "create"
                   /\ tasks'[t].sent = Append(tasks[t].sent, "active")
                      => tasks[t].pc = "broadcast_active"]_vars

C38_Witness ==
    \E t \in TaskIds :
        /\ tasks[t].kind = "create" /\ tasks[t].pc = "done"
        /\ tasks[t].sent = << "initializing", "active" >>
        /\ db[tasks[t].p] = [status |-> "active", sandbox_id |-> tasks[t].sb, host_url |-> 1]

\* C39: the metadata file of a project is written only by the step of
\* initialize_project_sandbox in which the host lookup succeeded after a
\* successful provisioning, with the sandbox id of that run, and right
\* after cleanup_project_sandbox has returned sandbox_project_exists is
\* false: so the file exists only if both succeeded and no
\* cleanup_project_sandbox has completed since.
C39_MetadataTracksProvisioning ==
    [][\A p \in Projects :
          /\ meta'[p] # meta[p] /\ sandbox_project_exists(meta', p)
                => \E t \in TaskIds :
                      /\ tasks[t].kind = "create" /\ tasks[t].p = p
                      /\ tasks[t].pc = "get_host" /\ tasks'[t].pc = "broadcast_active"
                      /\ tasks'[t].ret = "returned"
                      /\ tasks[t].sb # 0 /\ meta'[p] = tasks[t].sb
                      /\ tasks[t].reqs[1].op = "initialize"
                      /\ tasks'[t].reqs[Len(tasks'[t].reqs)].op = "get_host"
          /\ last'.op = "cleanup_project_sandbox" /\ last'.p = p /\ last'.out = "returned"
                => ~sandbox_project_exists(meta', p)
          /\ meta'[p] # meta[p] /\ ~sandbox_project_exists(meta', p)
                => last'.op = "cleanup_project_sandbox"]_vars

C39_Witness ==
    \E p \in Projects, t \in TaskIds :
        /\ tasks[t].kind = "create" /\ tasks[t].p = p /\ tasks[t].ret = "returned"
        /\ last.op = "cleanup_project_sandbox" /\ last.p = p /\ last.out = "returned"
        /\ ~sandbox_project_exists(meta, p)
        /\ db[p].status = "none"

\* The callbacks of kind k among a run's callbacks.
Callbacks(seq, k) == Cardinality({j \in 1..Len(seq) : seq[j] = k})

\* C40: a run of generate_diff_with_logging with a log_callback that has
\* ended has made exactly one terminal callback, as its last one: result,
\* and it returned, when the bridge answers its requests; error, and it
\* raised, when the bridge fails; every tool_start callback is directly
\* followed by a tool_result callback; and a run that was given a session
\* id returns that id.
C40_OneTerminalCallback ==
    \A t \in TaskIds :
        tasks[t].kind = "diff" /\ tasks[t].callback /\ tasks[t].pc \in {"done", "raised"}
            => LET seq == tasks[t].emitted
               IN /\ Callbacks(seq, "result") + Callbacks(seq, "error") = 1
                  /\ tasks[t].backend = "ok"
                        => tasks[t].ret = "returned" /\ LastIs(seq, "result")
                  /\ tasks[t].backend # "ok"
                        => tasks[t].ret = "raised" /\ LastIs(seq, "error")
                  /\ \A j \in 1..Len(seq) :
                        seq[j] = "tool_start" => j < Len(seq) /\ seq[j + 1] = "tool_result"
                  /\ tasks[t].ret = "returned" /\ tasks[t].sid # 0
                        => tasks[t].session = tasks[t].sid

====
